---- MODULE Spec2Model ----
(***************************************************************************)
(* A model of convert_data.py: the CSV -> JSON converter with AES          *)
(* encryption.  The pure functions (parse_vaccine_types,                   *)
(* convert_annotated, convert_threads, validate_data, encrypt_data) are    *)
(* operators computed as the code computes them; main() is a state         *)
(* machine with one action per statement group that can fail.              *)
(*                                                                         *)
(* Python values are records of one shape, so that any two can be          *)
(* compared:  t is the type tag, toks the content of a str (a sequence of  *)
(* lexemes), n the number of an int, items the elements of a list.         *)
(***************************************************************************)
EXTENDS Integers, Sequences, FiniteSets, TLC

VARIABLES
    pc,                 \* position of the running function
    build,              \* what bool() of an empty numpy array does in this build
    value,              \* parse_vaccine_types: its argument
    parsed,             \* parse_vaccine_types: its outcome
    annotated_df,       \* the annotated table (a sequence of rows)
    threads_df,         \* the thread-post table (a sequence of rows)
    annotated_records,  \* convert_annotated: records
    parse_errors,       \* convert_annotated: parse_errors
    threads_dict,       \* convert_threads: threads
    errors,             \* validate_data: errors
    warnings,           \* validate_data: warnings
    password,           \* args.password
    inputs,             \* which of the two input files exist
    files,              \* the output directory and the three artifacts of this run
    success,            \* how main() ended: "True", "False", "raised", "SystemExit"
    status,             \* the process exit status
    steps,              \* the statement groups of main() that completed
    data_str,           \* encrypt_data: the plaintext
    salt,               \* encrypt_data: salt
    iv,                 \* encrypt_data: iv
    encrypted           \* encrypt_data: the returned triple

parseVars == <<value, parsed>>
tableVars == <<annotated_df, threads_df, annotated_records, parse_errors,
               threads_dict, errors, warnings>>
mainVars == <<inputs, files, success, status, steps>>
cryptoVars == <<data_str, salt, iv, encrypted>>
vars == <<pc, build, password, parseVars, tableVars, mainVars, cryptoVars>>

\* ------------------------------------------------------------------------
\* Python values

NaN == [t |-> "nan", toks |-> <<>>, n |-> 0, items |-> <<>>]
None == [t |-> "none", toks |-> <<>>, n |-> 0, items |-> <<>>]
Str(s) == [t |-> "str", toks |-> s, n |-> 0, items |-> <<>>]
PyInt(k) == [t |-> "int", toks |-> <<>>, n |-> k, items |-> <<>>]
NpInt(k) == [t |-> "npint", toks |-> <<>>, n |-> k, items |-> <<>>]
List(xs) == [t |-> "list", toks |-> <<>>, n |-> 0, items |-> xs]

\* The lexemes a str cell is made of: the JSON punctuation, the literal null,
\* a string literal "a" (Quoted), and a bare word a, which is no JSON.
Quoted == "\"a\""
Bare == "a"
Tokens == {"[", "]", ",", "null", Quoted, Bare}

\* All sequences over S of length at most k.
SeqUpTo(S, k) == UNION {[1..m -> S] : m \in 0..k}

\* ------------------------------------------------------------------------
\* json.loads on a str: a recursive-descent decoder.  The outcome is
\* [ok, val, next]; ok = FALSE is json.JSONDecodeError.

JsonFail == [ok |-> FALSE, val |-> None, next |-> 0]

RECURSIVE ParseValue(_, _)
RECURSIVE ParseElems(_, _, _)
ParseValue(toks, i) ==
    IF i > Len(toks) THEN JsonFail
    ELSE IF toks[i] = "null" THEN [ok |-> TRUE, val |-> None, next |-> i + 1]
    ELSE IF toks[i] = Quoted THEN [ok |-> TRUE, val |-> Str(<<Bare>>), next |-> i + 1]
    ELSE IF toks[i] = "["
         THEN IF i + 1 <= Len(toks) /\ toks[i + 1] = "]"
              THEN [ok |-> TRUE, val |-> List(<<>>), next |-> i + 2]
              ELSE ParseElems(toks, i + 1, <<>>)
    ELSE JsonFail

ParseElems(toks, i, acc) ==
    LET v == ParseValue(toks, i) IN
    IF ~v.ok \/ v.next > Len(toks) THEN JsonFail
    ELSE IF toks[v.next] = ","
         THEN ParseElems(toks, v.next + 1, Append(acc, v.val))
    ELSE IF toks[v.next] = "]"
         THEN [ok |-> TRUE, val |-> List(Append(acc, v.val)), next |-> v.next + 1]
    ELSE JsonFail

\* json.loads(s): one value, and nothing after it ("Extra data" otherwise).
json_loads(toks) ==
    LET v == ParseValue(toks, 1) IN
    IF v.ok /\ v.next = Len(toks) + 1 THEN v ELSE JsonFail

\* ------------------------------------------------------------------------
\* pd.isna(value) used as a condition.  A scalar gives a bool.  A list gives
\* a numpy bool array of the shape of np.asarray(value, dtype=object), and
\* bool() of an array is its element when it holds one, ValueError when it
\* holds several, and for an empty one False with a DeprecationWarning or
\* ValueError, by the numpy build.

IsNA(v) == v.t \in {"nan", "none"}

RECURSIVE Leaves(_)
Leaves(xs) ==
    IF xs # <<>>
       /\ \A i \in 1..Len(xs) : xs[i].t = "list" /\ Len(xs[i].items) = Len(xs[1].items)
    THEN LET RECURSIVE Cat(_)
             Cat(i) == IF i > Len(xs) THEN <<>> ELSE Leaves(xs[i].items) \o Cat(i + 1)
         IN Cat(1)
    ELSE xs

\* "T", "F", or "E" (ValueError: the truth value of an array is ambiguous).
IsnaTruth(v, b) ==
    IF v.t = "list"
    THEN LET l == Leaves(v.items) IN
         IF Len(l) = 0 THEN (IF b = "raise" THEN "E" ELSE "F")
         ELSE IF Len(l) = 1 THEN (IF IsNA(l[1]) THEN "T" ELSE "F")
         ELSE "E"
    ELSE IF IsNA(v) THEN "T" ELSE "F"

\* ------------------------------------------------------------------------
\* parse_vaccine_types(value).  The outcome is [exc, val]: exc = "" is a
\* return of val, anything else the exception that leaves the function.

Return(v) == [exc |-> "", val |-> v]
Raise(e) == [exc |-> e, val |-> None]

parse_vaccine_types(v, b) ==
    LET na == IsnaTruth(v, b) IN
    IF na = "E" THEN Raise("ValueError")
    ELSE IF na = "T" \/ v = Str(<<>>) THEN Return(List(<<>>))
    ELSE IF v.t = "str"
         THEN LET d == json_loads(v.toks) IN
              IF d.ok THEN Return(d.val) ELSE Return(List(<<v>>))
    ELSE Return(v)

\* ------------------------------------------------------------------------
\* convert_annotated(df).  A row of the annotated table has the columns id,
\* thread_id and vaccine_types; df.iterrows() labels the rows 0, 1, ...

\* The normalisation loop: a value whose pd.isna() is true becomes None (a
\* ValueError or TypeError of the test is swallowed), a numpy scalar becomes
\* the Python scalar of value.item(), anything else stays.
Normalize(v, b) ==
    IF IsnaTruth(v, b) = "T" THEN None
    ELSE IF v.t = "npint" THEN PyInt(v.n)
    ELSE v

\* The body of the loop for the row labelled idx: [record, errs].
ConvertRow(row, idx, b) ==
    LET p == parse_vaccine_types(row.vaccine_types, b)
        vt == IF p.exc = "" THEN p.val ELSE List(<<>>)
    IN [record |-> [id |-> Normalize(row.id, b),
                    thread_id |-> Normalize(row.thread_id, b),
                    vaccine_types |-> Normalize(vt, b)],
        errs |-> IF p.exc = "" THEN <<>> ELSE <<[row |-> idx, exc |-> p.exc]>>]

RECURSIVE ConvertFrom(_, _, _)
ConvertFrom(df, i, b) ==
    IF i > Len(df) THEN [records |-> <<>>, parse_errors |-> <<>>]
    ELSE LET r == ConvertRow(df[i], i - 1, b)
             rest == ConvertFrom(df, i + 1, b)
         IN [records |-> <<r.record>> \o rest.records,
             parse_errors |-> r.errs \o rest.parse_errors]

convert_annotated(df, b) == ConvertFrom(df, 1, b)

\* ------------------------------------------------------------------------
\* convert_threads(df).  A row of the thread table keeps the columns that
\* decide the grouping: thread_id, timestamp and post_id (the other five are
\* copied cell by cell with a default and take no part in it).
\*   thread_id  [k, h]: k = "num" is the number h/2 (so 1.0 and 1.5 are
\*              different ids with the same int()), k = "text" a cell such
\*              as "abc" that int() rejects, k = "nan" a missing cell;
\*   timestamp  [na, n]: the n-th timestamp in the order of the cells;
\*   post_id    the number of the post.

NumTid(h) == [k |-> "num", h |-> h]
TextTid == [k |-> "text", h |-> 0]
NanTid == [k |-> "nan", h |-> 0]

\* The order of df.sort_values: by column, ascending, missing cells last
\* (na_position='last'); a text cell such as "abc" sorts after the digits.
TidClass(t) == IF t.k = "num" THEN 0 ELSE IF t.k = "text" THEN 1 ELSE 2

TidLess(a, b) ==
    \/ TidClass(a) < TidClass(b)
    \/ TidClass(a) = TidClass(b) /\ a.k = "num" /\ a.h < b.h

TsLess(a, b) ==
    \/ ~a.na /\ b.na
    \/ ~a.na /\ ~b.na /\ a.n < b.n

RowLess(r1, r2) ==
    \/ TidLess(r1.thread_id, r2.thread_id)
    \/ r1.thread_id = r2.thread_id /\ TsLess(r1.timestamp, r2.timestamp)

\* r put before the rows with an equal key: a sort that is not stable.
InsertRowBeforeEqual(s, r) ==
    LET later == {i \in 1..Len(s) : ~RowLess(s[i], r)}
        at == IF later = {} THEN Len(s) + 1
              ELSE CHOOSE i \in later : \A j \in later : i <= j
    IN SubSeq(s, 1, at - 1) \o <<r>> \o SubSeq(s, at, Len(s))

\* r put after every row that is not greater: rows with equal keys keep
\* the order they came in (the sort on several columns is a stable one).
InsertRow(s, r) ==
    LET later == {i \in 1..Len(s) : RowLess(r, s[i])}
        at == IF later = {} THEN Len(s) + 1
              ELSE CHOOSE i \in later : \A j \in later : i <= j
    IN SubSeq(s, 1, at - 1) \o <<r>> \o SubSeq(s, at, Len(s))

RECURSIVE SortFrom(_, _, _)
SortFrom(df, i, acc) ==
    IF i > Len(df) THEN acc ELSE SortFrom(df, i + 1, InsertRow(acc, df[i]))

sort_values(df) == SortFrom(df, 1, <<>>)

\* The rows of s whose thread_id is tid, in the order of s.
RECURSIVE SelectRows(_, _, _)
SelectRows(s, i, tid) ==
    IF i > Len(s) THEN <<>>
    ELSE (IF s[i].thread_id = tid THEN <<s[i]>> ELSE <<>>) \o SelectRows(s, i + 1, tid)

\* df.groupby('thread_id'): the distinct thread ids in ascending order, the
\* missing one dropped (dropna=True); each group holds its rows in df's order.
RECURSIVE GroupKeysFrom(_, _, _)
GroupKeysFrom(s, i, acc) ==
    IF i > Len(s) THEN acc
    ELSE LET t == s[i].thread_id IN
         IF t.k = "nan" \/ \E j \in 1..Len(acc) : acc[j] = t
         THEN GroupKeysFrom(s, i + 1, acc)
         ELSE GroupKeysFrom(s, i + 1, Append(acc, t))

GroupKeys(s) == GroupKeysFrom(s, 1, <<>>)

\* One post of the mapping: int(post_id), str(timestamp) or None.
Post(row) ==
    [post_id |-> row.post_id,
     timestamp |-> [none |-> row.timestamp.na, s |-> row.timestamp.n]]

RECURSIVE PostsOf(_, _)
PostsOf(rows, i) ==
    IF i > Len(rows) THEN <<>> ELSE <<Post(rows[i])>> \o PostsOf(rows, i + 1)

\* threads[key] = posts: a new key is added, an old one overwritten.
DictSet(d, key, posts) ==
    [x \in DOMAIN d \cup {key} |-> IF x = key THEN posts ELSE d[x]]

\* str(int(thread_id)): the key is the integer part (int() of a float
\* truncates); the decimal string of an int stands for the int itself.
IntOfTid(t) == t.h \div 2

\* The loop over the groups; int() of a text cell raises ValueError.
RECURSIVE GroupLoop(_, _, _, _)
GroupLoop(s, keys, i, threads) ==
    IF i > Len(keys) THEN Return(threads)
    ELSE IF keys[i].k = "text" THEN Raise("ValueError")
    ELSE GroupLoop(s, keys, i + 1,
                   DictSet(threads, IntOfTid(keys[i]),
                           PostsOf(SelectRows(s, 1, keys[i]), 1)))

convert_threads(df) ==
    LET s == sort_values(df) IN GroupLoop(s, GroupKeys(s), 1, <<>>)

\* sum(len(posts) for posts in threads_dict.values())
RECURSIVE SumLens(_, _)
SumLens(d, keys) ==
    IF keys = {} THEN 0
    ELSE LET x == CHOOSE y \in keys : TRUE IN Len(d[x]) + SumLens(d, keys \ {x})

TotalPosts(d) == SumLens(d, DOMAIN d)

\* ------------------------------------------------------------------------
\* validate_data(annotated_records, threads_dict, annotated_df, threads_df);
\* of the two tables only len() is read.  The result is [errors, warnings],
\* each message a record of its kind and the numbers it prints.

\* not v
Falsy(v) ==
    \/ v.t = "none"
    \/ v.t = "list" /\ v.items = <<>>
    \/ v.t = "str" /\ v.toks = <<>>
    \/ v.t \in {"int", "npint"} /\ v.n = 0

\* annotated_thread_ids - threads_thread_ids
MissingInThreads(records, d) ==
    {records[i].thread_id : i \in 1..Len(records)}
        \ {PyInt(x) : x \in DOMAIN d}

EmptyVaccineTypes(records) ==
    Cardinality({i \in 1..Len(records) : Falsy(records[i].vaccine_types)})

\* validate_data without the check of the thread table's row count.
validate_data_NoPostCount(records, d, n_annotated, n_threads) ==
    [errors |-> IF Len(records) # n_annotated
                THEN <<[kind |-> "annotated_count", got |-> Len(records), of |-> n_annotated]>>
                ELSE <<>>,
     warnings |-> <<>>]

\* validate_data with the thread-id mismatch reported as an error.
validate_data_MissingIsError(records, d, n_annotated, n_threads) ==
    [errors |->
        (IF Len(records) # n_annotated
         THEN <<[kind |-> "annotated_count", got |-> Len(records), of |-> n_annotated]>>
         ELSE <<>>)
        \o (IF TotalPosts(d) # n_threads
            THEN <<[kind |-> "threads_count", got |-> TotalPosts(d), of |-> n_threads]>>
            ELSE <<>>)
        \o (IF MissingInThreads(records, d) # {}
            THEN <<[kind |-> "missing_in_threads",
                    got |-> Cardinality(MissingInThreads(records, d)), of |-> 0]>>
            ELSE <<>>),
     warnings |-> <<>>]

validate_data(records, d, n_annotated, n_threads) ==
    LET e1 == IF Len(records) # n_annotated
              THEN <<[kind |-> "annotated_count", got |-> Len(records), of |-> n_annotated]>>
              ELSE <<>>
        e2 == IF TotalPosts(d) # n_threads
              THEN <<[kind |-> "threads_count", got |-> TotalPosts(d), of |-> n_threads]>>
              ELSE <<>>
        w1 == IF MissingInThreads(records, d) # {}
              THEN <<[kind |-> "missing_in_threads",
                      got |-> Cardinality(MissingInThreads(records, d)), of |-> 0]>>
              ELSE <<>>
        w2 == IF EmptyVaccineTypes(records) > 0
              THEN <<[kind |-> "empty_vaccine_types",
                      got |-> EmptyVaccineTypes(records), of |-> 0]>>
              ELSE <<>>
    IN [errors |-> e1 \o e2, warnings |-> w1 \o w2]

\* ------------------------------------------------------------------------
\* encrypt_data(data_str, password).  A str is a sequence of code points, a
\* bytes object a sequence of numbers 0..255, a base64 text a sequence of
\* alphabet positions 0..63 with 64 for "=".  The two get_random_bytes(16)
\* draws are the arguments salt and iv.

SaltLen == 16
IvLen == 16
DkLen == 32
Iterations == 100000
BlockSize == 16

RECURSIVE SumSeq(_, _)
SumSeq(s, i) == IF i > Len(s) THEN 0 ELSE s[i] + SumSeq(s, i + 1)

\* str.encode('utf-8') of one code point, and of a str.
Utf8Char(cp) ==
    IF cp < 128 THEN <<cp>>
    ELSE IF cp < 2048 THEN <<192 + cp \div 64, 128 + (cp % 64)>>
    ELSE IF cp < 65536
         THEN <<224 + cp \div 4096, 128 + ((cp \div 64) % 64), 128 + (cp % 64)>>
    ELSE <<240 + cp \div 262144, 128 + ((cp \div 4096) % 64),
           128 + ((cp \div 64) % 64), 128 + (cp % 64)>>

RECURSIVE Utf8From(_, _)
Utf8From(str, i) ==
    IF i > Len(str) THEN <<>> ELSE Utf8Char(str[i]) \o Utf8From(str, i + 1)

Utf8Encode(str) == Utf8From(str, 1)

\* A padding of zero bytes, which cannot be told from the data's own.
pad_zeros(data, block_size) ==
    LET k == block_size - (Len(data) % block_size)
    IN data \o [i \in 1..k |-> 0]

\* Crypto.Util.Padding.pad(data, block_size): PKCS#7.
pad(data, block_size) ==
    LET k == block_size - (Len(data) % block_size)
    IN data \o [i \in 1..k |-> k]

\* PBKDF2(password, salt, dkLen, count).  The key-derivation function is not
\* computed; what stands for it is a function of all of its arguments, so
\* that a key derived from another password, salt or count differs.
PBKDF2(pw, s, dkLen, count) ==
    LET p == SumSeq(Utf8Encode(pw), 1)
        q == SumSeq(s, 1)
    IN [i \in 1..dkLen |-> (p * i + q + count + i) % 256]

\* a ^ b on bytes.
RECURSIVE Xor(_, _)
Xor(a, b) ==
    IF a = 0 /\ b = 0 THEN 0
    ELSE (((a % 2) + (b % 2)) % 2) + 2 * Xor(a \div 2, b \div 2)

XorBlock(x, y) == [i \in 1..BlockSize |-> Xor(x[i], y[i])]

\* The block cipher under a key.  AES is not computed; what stands for it
\* is a permutation of the 16-byte blocks that the key decides: the bytes
\* are rotated by one place and shifted by the key's bytes.
AesEncryptBlock(key, x) ==
    [i \in 1..BlockSize |->
        (x[(i % BlockSize) + 1] + key[i] + key[i + BlockSize]) % 256]

\* AES.new(key, AES.MODE_CBC, iv).encrypt(padded): each block is XORed with
\* the ciphertext block before it (the iv for the first) and encrypted.
RECURSIVE CbcFrom(_, _, _, _)
CbcFrom(key, prev, data, i) ==
    IF i > Len(data) THEN <<>>
    ELSE LET c == AesEncryptBlock(key, XorBlock(SubSeq(data, i, i + BlockSize - 1), prev))
         IN c \o CbcFrom(key, c, data, i + BlockSize)

CbcEncrypt(key, v, data) == CbcFrom(key, v, data, 1)

\* base64.b64encode(b).decode('utf-8')
RECURSIVE B64From(_, _)
B64From(b, i) ==
    IF i > Len(b) THEN <<>>
    ELSE IF i = Len(b)
         THEN <<b[i] \div 4, (b[i] % 4) * 16, 64, 64>>
    ELSE IF i + 1 = Len(b)
         THEN <<b[i] \div 4, (b[i] % 4) * 16 + b[i + 1] \div 16,
                (b[i + 1] % 16) * 4, 64>>
    ELSE <<b[i] \div 4, (b[i] % 4) * 16 + b[i + 1] \div 16,
           (b[i + 1] % 16) * 4 + b[i + 2] \div 64, (b[i + 2] % 64)>>
         \o B64From(b, i + 3)

b64encode(b) == B64From(b, 1)

\* The returned tuple: (encrypted_b64, salt_b64, iv_b64).
encrypt_data(str, pw, s, v) ==
    LET key == PBKDF2(pw, s, DkLen, Iterations)
        padded_data == pad(Utf8Encode(str), BlockSize)
        enc == CbcEncrypt(key, v, padded_data)
    IN <<b64encode(enc), b64encode(s), b64encode(v)>>

\* ------------------------------------------------------------------------
\* The values a specification does not use.

Builds == {"warn", "raise"}

NoPassword == [given |-> FALSE, text |-> <<>>]

ParseIdle == value = None /\ parsed = Return(None)

TablesIdle ==
    /\ annotated_df = <<>>
    /\ threads_df = <<>>
    /\ annotated_records = <<>>
    /\ parse_errors = <<>>
    /\ threads_dict = <<>>
    /\ errors = <<>>
    /\ warnings = <<>>

NoFiles ==
    [dir |-> "absent", annotated_json |-> "absent",
     threads_encrypted |-> "absent", encryption_config |-> "absent"]

MainIdle ==
    /\ inputs = [annotated_csv |-> TRUE, threads_csv |-> TRUE]
    /\ files = NoFiles
    /\ success = ""
    /\ status = 0
    /\ steps = {}

CryptoIdle == data_str = <<>> /\ salt = <<>> /\ iv = <<>> /\ encrypted = <<>>

\* ------------------------------------------------------------------------
\* parse_vaccine_types on every cell value: a str of up to MaxTokens
\* lexemes, a missing cell, a number, a list of one to MaxListLen elements.

MaxTokens == 4
MaxListLen == 2

CellValues(maxTokens, maxListLen) ==
    {Str(s) : s \in SeqUpTo(Tokens, maxTokens)}
        \cup {NaN, None, PyInt(5), NpInt(5)}
        \cup {List(xs) : xs \in SeqUpTo({Str(<<Bare>>), None}, maxListLen) \ {<<>>}}

InitParse ==
    /\ pc = "parse_vaccine_types"
    /\ build \in Builds
    /\ password = NoPassword
    /\ value \in CellValues(MaxTokens, MaxListLen)
    /\ parsed = Return(None)
    /\ TablesIdle /\ MainIdle /\ CryptoIdle

CallParse ==
    /\ pc = "parse_vaccine_types"
    /\ parsed' = parse_vaccine_types(value, build)
    /\ pc' = "parse_returned"
    /\ UNCHANGED <<build, password, value, tableVars, mainVars, cryptoVars>>

NextParse == CallParse

SpecParse == InitParse /\ [][NextParse]_vars

\* ------------------------------------------------------------------------
\* convert_annotated on every table of up to MaxAnnRows rows.  The
\* vaccine_types cells: missing, "", [], ["a"], [null], a (no JSON), and a
\* list of two strings (a table built in memory, not read from a file).

MaxAnnRows == 2

VaccineCells ==
    {NaN, Str(<<>>), Str(<<"[", "]">>), Str(<<"[", Quoted, "]">>),
     Str(<<"[", "null", "]">>), Str(<<Bare>>),
     List(<<Str(<<Bare>>), Str(<<Bare>>)>>)}

AnnRows(ids, tids, cells) ==
    {[id |-> i, thread_id |-> t, vaccine_types |-> c] :
        i \in ids, t \in tids, c \in cells}

AnnotatedTables(maxRows) ==
    SeqUpTo(AnnRows({NpInt(7), NaN}, {NpInt(1)}, VaccineCells), maxRows)

InitAnnotated ==
    /\ pc = "convert_annotated"
    /\ build \in Builds
    /\ password = NoPassword
    /\ annotated_df \in AnnotatedTables(MaxAnnRows)
    /\ threads_df = <<>>
    /\ annotated_records = <<>>
    /\ parse_errors = <<>>
    /\ threads_dict = <<>>
    /\ errors = <<>>
    /\ warnings = <<>>
    /\ ParseIdle /\ MainIdle /\ CryptoIdle

CallConvertAnnotated ==
    /\ pc = "convert_annotated"
    /\ LET r == convert_annotated(annotated_df, build) IN
        /\ annotated_records' = r.records
        /\ parse_errors' = r.parse_errors
    /\ pc' = "annotated_returned"
    /\ UNCHANGED <<build, password, annotated_df, threads_df, threads_dict,
                   errors, warnings, parseVars, mainVars, cryptoVars>>

NextAnnotated == CallConvertAnnotated

SpecAnnotated == InitAnnotated /\ [][NextAnnotated]_vars

\* ------------------------------------------------------------------------
\* convert_threads on every table of up to MaxThreadRows rows that
\* pd.read_csv can give: a column with a text cell holds no fractions (its
\* other cells are the digits of whole numbers).  post_id numbers the rows.

MaxThreadRows == 3

Timestamp(k) == [na |-> FALSE, n |-> k]
NanTimestamp == [na |-> TRUE, n |-> 0]

Readable(df) ==
    (\E i \in 1..Len(df) : df[i].thread_id.k = "text")
        => \A i \in 1..Len(df) : df[i].thread_id.h % 2 = 0

\* The table whose i-th row has the cells c[i] and the post_id i.
ThreadTable(c) ==
    [i \in DOMAIN c |-> [thread_id |-> c[i][1], timestamp |-> c[i][2], post_id |-> i]]

ThreadTablesOf(tids, tss, k) ==
    {df \in UNION {{ThreadTable(c) : c \in [1..m -> tids \X tss]} : m \in 0..k} :
        Readable(df)}

ThreadIds == {NumTid(2), NumTid(3), NumTid(4), NanTid, TextTid}
Timestamps == {Timestamp(1), Timestamp(2), NanTimestamp}

InitThreads ==
    /\ pc = "convert_threads"
    /\ build \in {"warn"}
    /\ password = NoPassword
    /\ annotated_df = <<>>
    /\ \E m \in 0..MaxThreadRows : \E c \in [1..m -> ThreadIds \X Timestamps] :
            threads_df = ThreadTable(c)
    /\ Readable(threads_df)
    /\ annotated_records = <<>>
    /\ parse_errors = <<>>
    /\ threads_dict = <<>>
    /\ errors = <<>>
    /\ warnings = <<>>
    /\ ParseIdle /\ MainIdle /\ CryptoIdle

\* convert_threads returns the mapping, or int() raises and nothing is returned.
CallConvertThreads ==
    /\ pc = "convert_threads"
    /\ LET r == convert_threads(threads_df) IN
        \/ /\ r.exc = ""
           /\ threads_dict' = r.val
           /\ pc' = "threads_returned"
        \/ /\ r.exc # ""
           /\ threads_dict' = <<>>
           /\ pc' = "threads_raised"
    /\ UNCHANGED <<build, password, annotated_df, threads_df, annotated_records,
                   parse_errors, errors, warnings, parseVars, mainVars, cryptoVars>>

NextThreads == CallConvertThreads

SpecThreads == InitThreads /\ [][NextThreads]_vars

\* ------------------------------------------------------------------------
\* main() and the __main__ block: one action per statement group that can
\* end the run.  The environment decides whether the input files exist and
\* whether a read, a directory creation, the encryption or a write fails;
\* an exception nobody catches ends the process with UncaughtStatus.

MinPasswordLen == 8
ArgparseStatus == 2
UncaughtStatus == 1

MainAnnRows == 2
MainThreadRows == 2

\* What pd.read_csv can give (an empty cell is read as missing).
CsvVaccineCells == {NaN, Str(<<"[", Quoted, "]">>), Str(<<Bare>>)}

MainAnnTables ==
    SeqUpTo(AnnRows({NpInt(7)}, {NpInt(1), NpInt(2)}, CsvVaccineCells), MainAnnRows)

MainThreadTables ==
    ThreadTablesOf({NumTid(2), NumTid(3), NanTid, TextTid}, {Timestamp(1)},
                   MainThreadRows)

Passwords ==
    {NoPassword}
        \cup {[given |-> TRUE, text |-> [i \in 1..k |-> 112]] :
                k \in {MinPasswordLen - 1, MinPasswordLen}}

Init ==
    /\ pc = "main"
    /\ build \in Builds
    /\ password \in Passwords
    /\ inputs \in [annotated_csv : BOOLEAN, threads_csv : BOOLEAN]
    /\ files = NoFiles
    /\ success = ""
    /\ status = 0
    /\ steps = {}
    /\ TablesIdle /\ ParseIdle /\ CryptoIdle

\* An exit status that does not look at success.
ExitStatusAlwaysZero(ok) == 0

\* exit(0 if success else 1)
ExitStatus(ok) == IF ok THEN 0 ELSE 1

\* return True / return False, then the __main__ block's exit.
ReturnFrom(ok) ==
    /\ success' = (IF ok THEN "True" ELSE "False")
    /\ status' = ExitStatus(ok)
    /\ pc' = "exited"

\* An exception leaves main(): the interpreter prints it and exits.
Uncaught ==
    /\ success' = "raised"
    /\ status' = UncaughtStatus
    /\ pc' = "exited"

Goto(next, step) ==
    /\ pc' = next
    /\ steps' = steps \cup {step}
    /\ UNCHANGED <<success, status>>

\* parser.parse_args() and the password length check.
ParseArgs ==
    /\ pc = "main"
    /\ \/ /\ ~password.given
          /\ success' = "SystemExit"
          /\ status' = ArgparseStatus
          /\ pc' = "exited"
          /\ UNCHANGED steps
       \/ /\ password.given
          /\ Len(password.text) < MinPasswordLen
          /\ ReturnFrom(FALSE)
          /\ UNCHANGED steps
       \/ /\ password.given
          /\ Len(password.text) >= MinPasswordLen
          /\ Goto("check_inputs", "args")
    /\ UNCHANGED <<build, password, inputs, files, tableVars, parseVars, cryptoVars>>

CheckInputs ==
    /\ pc = "check_inputs"
    /\ \/ /\ ~inputs.annotated_csv \/ ~inputs.threads_csv
          /\ ReturnFrom(FALSE)
          /\ UNCHANGED steps
       \/ /\ inputs.annotated_csv /\ inputs.threads_csv
          /\ Goto("load", "inputs")
    /\ UNCHANGED <<build, password, inputs, files, tableVars, parseVars, cryptoVars>>

\* pd.read_csv of the two files.
LoadCsv ==
    /\ pc = "load"
    /\ \/ /\ Uncaught
          /\ UNCHANGED <<steps, annotated_df, threads_df>>
       \/ /\ annotated_df' \in MainAnnTables
          /\ threads_df' \in MainThreadTables
          /\ Goto("convert", "load")
    /\ UNCHANGED <<build, password, inputs, files, annotated_records, parse_errors,
                   threads_dict, errors, warnings, parseVars, cryptoVars>>

Convert ==
    /\ pc = "convert"
    /\ LET a == convert_annotated(annotated_df, build)
           t == convert_threads(threads_df)
       IN \/ /\ t.exc # ""
             /\ Uncaught
             /\ UNCHANGED <<steps, annotated_records, parse_errors, threads_dict>>
          \/ /\ t.exc = ""
             /\ annotated_records' = a.records
             /\ parse_errors' = a.parse_errors
             /\ threads_dict' = t.val
             /\ Goto("validate", "convert")
    /\ UNCHANGED <<build, password, inputs, files, annotated_df, threads_df,
                   errors, warnings, parseVars, cryptoVars>>

\* validate_data and the gate on its errors.
Validate ==
    /\ pc = "validate"
    /\ LET v == validate_data(annotated_records, threads_dict,
                              Len(annotated_df), Len(threads_df))
       IN /\ errors' = v.errors
          /\ warnings' = v.warnings
          /\ \/ /\ v.errors # <<>>
                /\ ReturnFrom(FALSE)
                /\ steps' = steps \cup {"validate"}
             \/ /\ v.errors = <<>>
                /\ Goto("mkdir", "validate")
    /\ UNCHANGED <<build, password, inputs, files, annotated_df, threads_df,
                   annotated_records, parse_errors, threads_dict, parseVars, cryptoVars>>

\* OUTPUT_DIR.mkdir(parents=True, exist_ok=True)
Mkdir ==
    /\ pc = "mkdir"
    /\ \/ /\ Uncaught
          /\ UNCHANGED <<steps, files>>
       \/ /\ files' = [files EXCEPT !.dir = "written"]
          /\ Goto("save_annotated", "mkdir")
    /\ UNCHANGED <<build, password, inputs, tableVars, parseVars, cryptoVars>>

\* with open(path, 'w') as f: write.  open() fails and leaves no file, or the
\* write fails and leaves a part of it, or the file is written.
SaveFile(name, next) ==
    \/ /\ Uncaught
       /\ UNCHANGED <<steps, files>>
    \/ /\ Uncaught
       /\ files' = [files EXCEPT ![name] = "partial"]
       /\ UNCHANGED steps
    \/ /\ files' = [files EXCEPT ![name] = "written"]
       /\ Goto(next, name)

SaveAnnotated ==
    /\ pc = "save_annotated"
    /\ SaveFile("annotated_json", "encrypt")
    /\ UNCHANGED <<build, password, inputs, tableVars, parseVars, cryptoVars>>

\* json.dumps(threads_dict) and encrypt_data(threads_json_str, password).
EncryptThreads ==
    /\ pc = "encrypt"
    /\ \/ /\ Uncaught
          /\ UNCHANGED steps
       \/ Goto("save_encrypted", "encrypt")
    /\ UNCHANGED <<build, password, inputs, files, tableVars, parseVars, cryptoVars>>

SaveEncrypted ==
    /\ pc = "save_encrypted"
    /\ SaveFile("threads_encrypted", "save_config")
    /\ UNCHANGED <<build, password, inputs, tableVars, parseVars, cryptoVars>>

SaveConfig ==
    /\ pc = "save_config"
    /\ SaveFile("encryption_config", "summary")
    /\ UNCHANGED <<build, password, inputs, tableVars, parseVars, cryptoVars>>

\* The summary and return True.
ReturnTrue ==
    /\ pc = "summary"
    /\ ReturnFrom(TRUE)
    /\ UNCHANGED <<build, password, inputs, files, steps, tableVars, parseVars, cryptoVars>>

Next ==
    \/ ParseArgs
    \/ CheckInputs
    \/ LoadCsv
    \/ Convert
    \/ Validate
    \/ Mkdir
    \/ SaveAnnotated
    \/ EncryptThreads
    \/ SaveEncrypted
    \/ SaveConfig
    \/ ReturnTrue

Spec == Init /\ [][Next]_vars

\* ------------------------------------------------------------------------
\* encrypt_data on every str of up to MaxPlainLen characters of one, two,
\* three and four UTF-8 bytes, under two passwords; the action draws the
\* salt and the iv that get_random_bytes returns.

MaxPlainLen == 4

Chars == {97, 233, 8364, 128512}

Seeds == {3, 200}

Plaintexts(maxLen) == SeqUpTo(Chars, maxLen)

get_random_bytes(k) == {[i \in 1..k |-> (seed * i + seed) % 256] : seed \in Seeds}

CryptoPasswords ==
    {[given |-> TRUE, text |-> [i \in 1..MinPasswordLen |-> c]] : c \in {112, 233}}

InitEncrypt ==
    /\ pc = "encrypt_data"
    /\ build \in {"warn"}
    /\ password \in CryptoPasswords
    /\ data_str \in Plaintexts(MaxPlainLen)
    /\ salt = <<>>
    /\ iv = <<>>
    /\ encrypted = <<>>
    /\ TablesIdle /\ ParseIdle /\ MainIdle

CallEncrypt ==
    /\ pc = "encrypt_data"
    /\ salt' \in get_random_bytes(SaltLen)
    /\ iv' \in get_random_bytes(IvLen)
    /\ encrypted' = encrypt_data(data_str, password.text, salt', iv')
    /\ pc' = "encrypt_returned"
    /\ UNCHANGED <<build, password, data_str, tableVars, parseVars, mainVars>>

NextEncrypt == CallEncrypt

SpecEncrypt == InitEncrypt /\ [][NextEncrypt]_vars

\* ------------------------------------------------------------------------
\* The decryption the viewer performs, the inverse of each step: base64
\* decoding, the key from (password, salt), CBC decryption with the iv,
\* removal of the padding, UTF-8 decoding.

RECURSIVE B64DecodeFrom(_, _)
B64DecodeFrom(t, i) ==
    IF i + 3 > Len(t) THEN <<>>
    ELSE LET b1 == t[i] * 4 + t[i + 1] \div 16
             b2 == (t[i + 1] % 16) * 16 + t[i + 2] \div 4
             b3 == (t[i + 2] % 4) * 64 + t[i + 3]
         IN IF t[i + 2] = 64 THEN <<b1>>
            ELSE IF t[i + 3] = 64 THEN <<b1, b2>>
            ELSE <<b1, b2, b3>> \o B64DecodeFrom(t, i + 4)

B64Decode(t) == B64DecodeFrom(t, 1)

AesDecryptBlock(key, y) ==
    [j \in 1..BlockSize |->
        LET i == ((j + BlockSize - 2) % BlockSize) + 1
        IN (y[i] + 512 - key[i] - key[i + BlockSize]) % 256]

RECURSIVE CbcDecryptFrom(_, _, _, _)
CbcDecryptFrom(key, prev, data, i) ==
    IF i + BlockSize - 1 > Len(data) THEN <<>>
    ELSE LET c == SubSeq(data, i, i + BlockSize - 1)
         IN XorBlock(AesDecryptBlock(key, c), prev)
                \o CbcDecryptFrom(key, c, data, i + BlockSize)

Unpad(data) ==
    IF data = <<>> THEN <<>>
    ELSE SubSeq(data, 1, Len(data) - data[Len(data)])

\* The code points of a UTF-8 byte sequence (an ill-formed tail is dropped).
RECURSIVE Utf8Decode(_, _)
Utf8Decode(b, i) ==
    IF i > Len(b) THEN <<>>
    ELSE IF b[i] < 128 THEN <<b[i]>> \o Utf8Decode(b, i + 1)
    ELSE IF b[i] >= 192 /\ b[i] < 224 /\ i + 1 <= Len(b)
         THEN <<(b[i] - 192) * 64 + (b[i + 1] % 64)>> \o Utf8Decode(b, i + 2)
    ELSE IF b[i] >= 224 /\ b[i] < 240 /\ i + 2 <= Len(b)
         THEN <<(b[i] - 224) * 4096 + (b[i + 1] % 64) * 64 + (b[i + 2] % 64)>>
                \o Utf8Decode(b, i + 3)
    ELSE IF b[i] >= 240 /\ i + 3 <= Len(b)
         THEN <<(b[i] - 240) * 262144 + (b[i + 1] % 64) * 4096
                    + (b[i + 2] % 64) * 64 + (b[i + 3] % 64)>>
                \o Utf8Decode(b, i + 4)
    ELSE <<>>

Decrypt(c, s, v, pw) ==
    LET key == PBKDF2(pw, B64Decode(s), 32, 100000)
    IN Utf8Decode(Unpad(CbcDecryptFrom(key, B64Decode(v), B64Decode(c), 1)), 1)

IsBase64(t) ==
    /\ Len(t) % 4 = 0
    /\ \A i \in 1..Len(t) : t[i] \in 0..64 /\ (t[i] = 64 => i >= Len(t) - 1)

C8_WitnessEmpty ==
    /\ pc = "encrypt_returned"
    /\ data_str = <<>>
    /\ Len(B64Decode(encrypted[1])) = BlockSize

\* ------------------------------------------------------------------------
\* The claims about parse_vaccine_types (SpecParse).

\* C5: parse_vaccine_types never raises; a missing or empty cell gives [],
\* a str that is a JSON array gives the decoded array, a str that is no
\* JSON gives [value], a value that is not a str is returned unchanged.
C5_ParseContract ==
    pc = "parse_returned" =>
        /\ parsed.exc = ""
        /\ (IsNA(value) \/ value = Str(<<>>)) => parsed.val = List(<<>>)
        /\ (value.t = "str" /\ value.toks # <<>> /\ json_loads(value.toks).ok
                /\ json_loads(value.toks).val.t = "list")
            => parsed.val = json_loads(value.toks).val
        /\ (value.t = "str" /\ value.toks # <<>> /\ ~json_loads(value.toks).ok)
            => parsed.val = List(<<value>>)
        /\ (value.t \notin {"str", "nan", "none"}) => parsed.val = value

\* C5 on the cells pd.read_csv gives (a str, a number, a missing cell).
C5_HoldsOnCsvCells ==
    (pc = "parse_returned" /\ value.t # "list") => C5_ParseContract

\* ------------------------------------------------------------------------
\* The claims about convert_annotated (SpecAnnotated).

Malformed(v) == v.t = "str" /\ v.toks # <<>> /\ ~json_loads(v.toks).ok

\* C6: every row whose vaccine_types cell is malformed has an entry with
\* its index in the parse-error list, and no other row has one.
C6_MalformedRowsReported ==
    pc = "annotated_returned" =>
        \A i \in 1..Len(annotated_df) :
            LET cell == annotated_df[i].vaccine_types
                named == \E k \in 1..Len(parse_errors) : parse_errors[k].row = i - 1
            IN /\ Malformed(cell) => named
               /\ (~Malformed(cell) /\ parse_vaccine_types(cell, build).exc = "") => ~named

\* C10: one record per row, in row order; the i-th record's vaccine_types
\* is the parser's result for the i-th cell ([] when the parser raised),
\* and every other missing cell is None.
C10_RecordsMirrorRows ==
    pc = "annotated_returned" =>
        /\ Len(annotated_records) = Len(annotated_df)
        /\ \A i \in 1..Len(annotated_df) :
            LET p == parse_vaccine_types(annotated_df[i].vaccine_types, build) IN
            /\ annotated_records[i].vaccine_types
                    = (IF p.exc = "" THEN p.val ELSE List(<<>>))
            /\ annotated_records[i].id
                    = (IF IsNA(annotated_df[i].id) THEN None ELSE PyInt(annotated_df[i].id.n))
            /\ annotated_records[i].thread_id = PyInt(annotated_df[i].thread_id.n)

\* ------------------------------------------------------------------------
\* The claims about convert_threads (SpecThreads).

\* The places <<key, position>> of the mapping that hold the post of row i.
PlacesOf(d, i) ==
    {<<x, j>> \in (DOMAIN d) \X (1..Len(threads_df)) :
        j <= Len(d[x]) /\ d[x][j].post_id = i}

\* C3: the lengths of the returned lists add up to the number of rows, and
\* every row is a post of exactly one list.
C3_EveryRowInOneList ==
    pc = "threads_returned" =>
        /\ TotalPosts(threads_dict) = Len(threads_df)
        /\ \A i \in 1..Len(threads_df) : Cardinality(PlacesOf(threads_dict, i)) = 1

\* C4: each list of the returned mapping holds rows of one thread_id, all
\* of its rows, in ascending timestamp order (missing timestamps last), and
\* two rows with the same timestamp in the order of the input table.
C4_StableTimestampOrder ==
    pc = "threads_returned" =>
        \A x \in DOMAIN threads_dict :
            LET posts == threads_dict[x] IN
            /\ posts # <<>>
            /\ \A j \in 1..Len(posts) :
                /\ posts[j].post_id \in 1..Len(threads_df)
                /\ posts[j] = Post(threads_df[posts[j].post_id])
                /\ threads_df[posts[j].post_id].thread_id
                        = threads_df[posts[1].post_id].thread_id
            /\ \A i \in 1..Len(threads_df) :
                threads_df[i].thread_id = threads_df[posts[1].post_id].thread_id
                    => \E j \in 1..Len(posts) : posts[j].post_id = i
            /\ \A j, k \in 1..Len(posts) :
                j < k =>
                    LET a == threads_df[posts[j].post_id].timestamp
                        b == threads_df[posts[k].post_id].timestamp
                    IN /\ a.na => b.na
                       /\ (~a.na /\ ~b.na) => a.n <= b.n
                       /\ a = b => posts[j].post_id < posts[k].post_id

\* A list of three posts: the last row of the table comes first, and the
\* two rows that share a timestamp follow in their input order.
C4_Witness ==
    /\ pc = "threads_returned"
    /\ \E x \in DOMAIN threads_dict :
        /\ Len(threads_dict[x]) = 3
        /\ threads_dict[x][1].post_id = 3
        /\ threads_dict[x][2].post_id = 1
        /\ threads_dict[x][3].post_id = 2
        /\ threads_dict[x][2].timestamp = threads_dict[x][3].timestamp

\* ------------------------------------------------------------------------
\* The claims about main() (Spec).

Artifacts == {"annotated_json", "threads_encrypted", "encryption_config"}

AllWritten == \A f \in Artifacts : files[f] = "written"
\* A file that open() created and the write left incomplete counts with the
\* files not written.
NoneWritten == \A f \in Artifacts : files[f] # "written"

CountsMatch ==
    /\ Len(annotated_records) = Len(annotated_df)
    /\ TotalPosts(threads_dict) = Len(threads_df)

\* C1: a run ends with all three artifacts written or with none of them.
C1_AllOrNothing == pc = "exited" => (AllWritten \/ NoneWritten)

\* C2: when a count differs, validate_data returns errors and main() returns
\* before the output directory or any file is created; whenever the
\* directory or a file exists, both counts matched.  validate_data reports
\* an error for every row count other than the one converted.
C2_LosslessGate ==
    /\ files # NoFiles => ("validate" \in steps /\ CountsMatch)
    /\ ("validate" \in steps /\ ~CountsMatch)
        => (errors # <<>> /\ pc = "exited" /\ success = "False" /\ files = NoFiles)
    /\ "convert" \in steps =>
        \A k \in 0..(Len(annotated_df) + 1), n \in 0..(Len(threads_df) + 1) :
            (k # Len(annotated_records) \/ n # TotalPosts(threads_dict))
                => validate_data(annotated_records, threads_dict, k, n).errors # <<>>

\* A run that the gate stopped: posts were lost and nothing was created.
C2_Witness ==
    /\ pc = "exited"
    /\ "validate" \in steps
    /\ TotalPosts(threads_dict) < Len(threads_df)
    /\ files = NoFiles

C7_WitnessFailure ==
    pc = "exited" /\ status # 0 /\ files.annotated_json = "written"

\* C9: a thread id missing from the mapping and empty vaccine_types add
\* warnings only: the errors are the count mismatches and nothing else, and
\* with no errors main() goes past the gate and, if nothing fails, writes
\* all three artifacts, however many warnings there are.
C9_WarningsDoNotBlock ==
    "validate" \in steps =>
        /\ errors = <<>> <=> CountsMatch
        /\ \A i \in 1..Len(errors) : errors[i].kind \in {"annotated_count", "threads_count"}
        /\ (\E i \in 1..Len(annotated_records) :
                \/ annotated_records[i].thread_id.t # "int"
                \/ annotated_records[i].thread_id.n \notin DOMAIN threads_dict)
            <=> \E i \in 1..Len(warnings) : warnings[i].kind = "missing_in_threads"
        /\ (\E i \in 1..Len(annotated_records) :
                annotated_records[i].vaccine_types \in {None, List(<<>>)})
            <=> \E i \in 1..Len(warnings) : warnings[i].kind = "empty_vaccine_types"
        /\ errors = <<>> => success # "False"
        /\ (errors = <<>> /\ pc = "exited" /\ success # "raised")
            => (AllWritten /\ status = 0)

\* A run with both warnings and no error that wrote all three artifacts.
C9_Witness ==
    /\ pc = "exited"
    /\ Len(warnings) = 2
    /\ errors = <<>>
    /\ AllWritten

====
